---------------------------- MODULE Spec2Model ----------------------------
(***************************************************************************)
(* Synchronized.h of WPILib: ReentrantSemaphore, a wrapper of a vxWorks    *)
(* mutual-exclusion semaphore (semMCreate / semTake / semGive / semDelete) *)
(* and Synchronized, the stack object that takes a semaphore when it is    *)
(* constructed and gives it when it is destroyed.                          *)
(*                                                                         *)
(* The state is the kernel's state of every native semaphore (validity,    *)
(* owner, recursion count, pend queue), the handle each ReentrantSemaphore *)
(* wraps, every task's scheduling state, and every task's Synchronized     *)
(* objects.  One action per member function, per macro and per kernel      *)
(* wake-up.                                                                *)
(***************************************************************************)
EXTENDS Integers, Sequences, FiniteSets, TLC

(***************************************************************************)
(* Bounds of the model.                                                    *)
(***************************************************************************)
\* Number of tasks (execution contexts).
NumTasks == 3
\* Synchronized objects constructed in a run, by all tasks together.
MaxGuards == 2
\* Outstanding direct take() calls of one task on one semaphore.
MaxTake == 2

(***************************************************************************)
(* Values.                                                                 *)
(***************************************************************************)
\* Return values of semTake / semGive ("0 for success, -1 for error").
OK == 0
ERROR == -1

Tasks == 1 .. NumTasks
NoTask == CHOOSE x \in 0 .. NumTasks : x \notin Tasks

\* vxWorks task priority: a smaller number is a higher priority.  Tasks of
\* odd number share one priority; tasks of even number run above them.
Priority(t) == IF t % 2 = 0 THEN 50 ELSE 100

\* The ReentrantSemaphore objects a program may declare, and the null SEM_ID.
Locks == {"L1", "L2"}
NULL == "NULL"
\* A native handle is named after the ReentrantSemaphore it was created for.
Handles == Locks

GuardIds == 1 .. MaxGuards

\* errno values semLib sets.
ErrnoNone == "0"
S_objLib_OBJ_ID_ERROR == "S_objLib_OBJ_ID_ERROR"
S_objLib_OBJ_DELETED == "S_objLib_OBJ_DELETED"
S_semLib_INVALID_OPERATION == "S_semLib_INVALID_OPERATION"

\* Queueing options of a semaphore (semLib.h).
SEM_Q_FIFO == "SEM_Q_FIFO"
SEM_Q_PRIORITY == "SEM_Q_PRIORITY"

\* The timeout ReentrantSemaphore::take passes to semTake.
NO_WAIT == "NO_WAIT"
WAIT_FOREVER == "WAIT_FOREVER"

VARIABLES
    m_semaphore,   \* ReentrantSemaphore::m_semaphore, per lock: a handle or NULL
    alive,         \* per lock: constructed and not yet destroyed
    semValid,      \* kernel, per handle: the semaphore exists
    semOptions,    \* kernel, per handle: queueing option given to semMCreate
    semOwner,      \* kernel, per handle: owning task or NoTask
    recurse,       \* kernel, per handle: how many times the owner holds it
    qHead,         \* kernel, per handle: pended tasks, in order of arrival
    errno,         \* the last-error slot
    pc,            \* per task: "run", "pend" (blocked in semTake), "ready"
    call,          \* per task: the semTake call the task is inside, if any
    ret,           \* the value the latest take() or give() returned
    taken,         \* per task and lock: take()s that returned 0 minus give()s that did
    guards         \* per guard id: the Synchronized object and its task

vars == <<m_semaphore, alive, semValid, semOptions, semOwner, recurse, qHead,
          errno, pc, call, ret, taken, guards>>

NoCall == [op |-> "none", lock |-> NULL, g |-> 0]

\* A Synchronized object before its constructor has run.  m_semaphore is the
\* only member; the other fields record what the constructor and destructor
\* did, which the object itself does not keep.
NoGuard == [state |-> "Unlocked", task |-> NoTask, m_semaphore |-> NULL,
            lock |-> NULL, takes |-> 0, took |-> OK, gives |-> 0, gave |-> NULL]


(***************************************************************************)
(* The kernel's semaphore library, as ReentrantSemaphore uses it.          *)
(***************************************************************************)
\* semLib verifies the SEM_ID of every call: NULL and the id of a deleted
\* semaphore are rejected.
Valid(h) == h \in Handles /\ semValid[h]

\* Positions in the pend queue of the tasks a give may wake: with
\* SEM_Q_PRIORITY the pended tasks of the highest priority, otherwise all.
Eligible(h) ==
    IF SEM_Q_PRIORITY \in semOptions[h]
    THEN {i \in DOMAIN qHead[h] :
            \A j \in DOMAIN qHead[h] : Priority(qHead[h][i]) <= Priority(qHead[h][j])}
    ELSE DOMAIN qHead[h]

\* The pended task that gets the semaphore next: the eligible task that has
\* waited longest.
QFirst(h) ==
    LET i == CHOOSE i \in Eligible(h) : \A j \in Eligible(h) : i <= j
    IN  qHead[h][i]

QRemove(q, t) == SelectSeq(q, LAMBDA x : x # t)

\* semTakeResult of a semaphore that is not recursive (a binary semaphore in
\* place of the mutex): its owner pends on it like any other task.
semTakeResult_NonRecursive(t, h, timeout) ==
    IF ~Valid(h) THEN "ERROR"
    ELSE IF semOwner[h] = NoTask THEN "OK"
    ELSE IF timeout = NO_WAIT THEN "ERROR"
    ELSE "PEND"

\* semTakeResult of a kernel that detects a circular wait: the take that
\* would pend on a semaphore whose owner is itself pended on a semaphore the
\* caller owns returns an error instead.
semTakeResult_DeadlockDetect(t, h, timeout) ==
    IF ~Valid(h) THEN "ERROR"
    ELSE IF semOwner[h] \in {NoTask, t} THEN "OK"
    ELSE IF timeout = NO_WAIT THEN "ERROR"
    ELSE IF \E h2 \in Handles :
                /\ semOwner[h2] = t
                /\ \E i \in DOMAIN qHead[h2] : qHead[h2][i] = semOwner[h]
         THEN "ERROR"
    ELSE "PEND"

\* What semTake does for task t: "OK" (taken at once), "ERROR" or "PEND".
semTakeResult(t, h, timeout) ==
    IF ~Valid(h) THEN "ERROR"
    ELSE IF semOwner[h] \in {NoTask, t} THEN "OK"
    ELSE IF timeout = NO_WAIT THEN "ERROR"
    ELSE "PEND"

\* semTake of a mutex that does not count: a take by the owner leaves the
\* recursion count at one.
semTake_NoCount(t, h, timeout) ==
    LET r == semTakeResult(t, h, timeout) IN
    /\ errno' = IF r # "ERROR" THEN errno
                ELSE IF Valid(h) THEN "S_objLib_OBJ_UNAVAILABLE"
                ELSE S_objLib_OBJ_ID_ERROR
    /\ semOwner' = IF r = "OK" THEN [semOwner EXCEPT ![h] = t] ELSE semOwner
    /\ recurse' = IF r = "OK" THEN [recurse EXCEPT ![h] = 1] ELSE recurse
    /\ qHead' = IF r = "PEND" THEN [qHead EXCEPT ![h] = Append(@, t)] ELSE qHead
    /\ pc' = IF r = "PEND" THEN [pc EXCEPT ![t] = "pend"] ELSE pc
    /\ UNCHANGED <<semValid, semOptions>>

\* semTake(h, timeout) called by task t: its effect on the kernel's state.
semTake(t, h, timeout) ==
    LET r == semTakeResult(t, h, timeout) IN
    /\ errno' = IF r # "ERROR" THEN errno
                ELSE IF Valid(h) THEN "S_objLib_OBJ_UNAVAILABLE"
                ELSE S_objLib_OBJ_ID_ERROR
    /\ semOwner' = IF r = "OK" THEN [semOwner EXCEPT ![h] = t] ELSE semOwner
    /\ recurse' = IF r = "OK" THEN [recurse EXCEPT ![h] = @ + 1] ELSE recurse
    /\ qHead' = IF r = "PEND" THEN [qHead EXCEPT ![h] = Append(@, t)] ELSE qHead
    /\ pc' = IF r = "PEND" THEN [pc EXCEPT ![t] = "pend"] ELSE pc
    /\ UNCHANGED <<semValid, semOptions>>

\* The status semGive returns to task t.
semGiveResult(t, h) ==
    IF Valid(h) /\ semOwner[h] = t THEN OK ELSE ERROR

\* semGive that frees the semaphore at the last level without handing it to
\* a pended task: the wake-up is lost.
semGive_NoHandoff(t, h) ==
    IF ~Valid(h) THEN
        /\ errno' = S_objLib_OBJ_ID_ERROR
        /\ UNCHANGED <<semValid, semOptions, semOwner, recurse, qHead, pc>>
    ELSE IF semOwner[h] # t THEN
        /\ errno' = S_semLib_INVALID_OPERATION
        /\ UNCHANGED <<semValid, semOptions, semOwner, recurse, qHead, pc>>
    ELSE IF recurse[h] > 1 THEN
        /\ recurse' = [recurse EXCEPT ![h] = @ - 1]
        /\ UNCHANGED <<semValid, semOptions, semOwner, qHead, errno, pc>>
    ELSE
        /\ semOwner' = [semOwner EXCEPT ![h] = NoTask]
        /\ recurse' = [recurse EXCEPT ![h] = 0]
        /\ UNCHANGED <<semValid, semOptions, qHead, errno, pc>>

\* semGive of a semaphore that does not verify its owner (a binary semaphore
\* in place of the mutex): a give by any task releases one level of the
\* owner's hold.
semGive_AnyTask(t, h) ==
    IF ~Valid(h) THEN
        /\ errno' = S_objLib_OBJ_ID_ERROR
        /\ UNCHANGED <<semValid, semOptions, semOwner, recurse, qHead, pc>>
    ELSE IF semOwner[h] = NoTask THEN
        /\ errno' = S_semLib_INVALID_OPERATION
        /\ UNCHANGED <<semValid, semOptions, semOwner, recurse, qHead, pc>>
    ELSE IF recurse[h] > 1 THEN
        /\ recurse' = [recurse EXCEPT ![h] = @ - 1]
        /\ UNCHANGED <<semValid, semOptions, semOwner, qHead, errno, pc>>
    ELSE IF qHead[h] = <<>> THEN
        /\ semOwner' = [semOwner EXCEPT ![h] = NoTask]
        /\ recurse' = [recurse EXCEPT ![h] = 0]
        /\ UNCHANGED <<semValid, semOptions, qHead, errno, pc>>
    ELSE
        LET w == QFirst(h) IN
        /\ semOwner' = [semOwner EXCEPT ![h] = w]
        /\ recurse' = [recurse EXCEPT ![h] = 1]
        /\ qHead' = [qHead EXCEPT ![h] = QRemove(@, w)]
        /\ pc' = [pc EXCEPT ![w] = "ready"]
        /\ UNCHANGED <<semValid, semOptions, errno>>

\* semGive(h) called by task t: one level of ownership is released; the last
\* level hands the semaphore to the first pended task, which becomes ready.
semGive(t, h) ==
    IF ~Valid(h) THEN
        /\ errno' = S_objLib_OBJ_ID_ERROR
        /\ UNCHANGED <<semValid, semOptions, semOwner, recurse, qHead, pc>>
    ELSE IF semOwner[h] # t THEN
        /\ errno' = S_semLib_INVALID_OPERATION
        /\ UNCHANGED <<semValid, semOptions, semOwner, recurse, qHead, pc>>
    ELSE IF recurse[h] > 1 THEN
        /\ recurse' = [recurse EXCEPT ![h] = @ - 1]
        /\ UNCHANGED <<semValid, semOptions, semOwner, qHead, errno, pc>>
    ELSE IF qHead[h] = <<>> THEN
        /\ semOwner' = [semOwner EXCEPT ![h] = NoTask]
        /\ recurse' = [recurse EXCEPT ![h] = 0]
        /\ UNCHANGED <<semValid, semOptions, qHead, errno, pc>>
    ELSE
        LET w == QFirst(h) IN
        /\ semOwner' = [semOwner EXCEPT ![h] = w]
        /\ recurse' = [recurse EXCEPT ![h] = 1]
        /\ qHead' = [qHead EXCEPT ![h] = QRemove(@, w)]
        /\ pc' = [pc EXCEPT ![w] = "ready"]
        /\ UNCHANGED <<semValid, semOptions, errno>>

\* semDelete(h): the semaphore ceases to exist; every task pended on it is
\* made ready and its semTake will return ERROR.
semDelete(h) ==
    IF ~Valid(h) THEN
        /\ errno' = S_objLib_OBJ_ID_ERROR
        /\ UNCHANGED <<semValid, semOptions, semOwner, recurse, qHead, pc>>
    ELSE
        /\ semValid' = [semValid EXCEPT ![h] = FALSE]
        /\ semOwner' = [semOwner EXCEPT ![h] = NoTask]
        /\ recurse' = [recurse EXCEPT ![h] = 0]
        /\ pc' = [t \in Tasks |->
                    IF \E i \in DOMAIN qHead[h] : qHead[h][i] = t
                    THEN "readyErr" ELSE pc[t]]
        /\ qHead' = [qHead EXCEPT ![h] = <<>>]
        /\ UNCHANGED <<semOptions, errno>>

(***************************************************************************)
(* ReentrantSemaphore.                                                     *)
(***************************************************************************)
\* The constructor asking for a first-in first-out pend queue.
CreateOptions_Fifo == {SEM_Q_FIFO, "SEM_DELETE_SAFE"}

\* The options the constructor passes to semMCreate.
CreateOptions == {SEM_Q_PRIORITY, "SEM_DELETE_SAFE"}

\* take() passing NO_WAIT: semTake returns an error when the semaphore is
\* held by another task.
TakeTimeout_NoWait == NO_WAIT

\* The timeout take() passes to semTake.
TakeTimeout == WAIT_FOREVER

\* The state once the ReentrantSemaphore objects the program declares (made)
\* have been constructed (the static instances are constructed at load time,
\* before any task is spawned): semMCreate returned a fresh handle, or NULL
\* when the kernel had no memory for the semaphore.  pool numbers the
\* Synchronized objects the program will construct.
Construct(made, pool) ==
    /\ m_semaphore \in [Locks -> Handles \cup {NULL}]
    /\ \A l \in Locks : m_semaphore[l] \in (IF l \in made THEN {l, NULL} ELSE {NULL})
    /\ alive = [l \in Locks |-> l \in made]
    /\ semValid = [h \in Handles |-> m_semaphore[h] = h]
    /\ semOptions = [h \in Handles |-> CreateOptions]
    /\ semOwner = [h \in Handles |-> NoTask]
    /\ recurse = [h \in Handles |-> 0]
    /\ qHead = [h \in Handles |-> <<>>]
    /\ errno = ErrnoNone
    /\ pc = [t \in Tasks |-> "run"]
    /\ call = [t \in Tasks |-> NoCall]
    /\ ret = OK
    /\ taken = [t \in Tasks |-> [l \in Locks |-> 0]]
    /\ guards = [g \in pool |-> NoGuard]

\* A program with one ReentrantSemaphore.
Init == Construct({"L1"}, GuardIds)

\* ~ReentrantSemaphore: semDelete(m_semaphore).  The destructor tests
\* nothing; its callers destroy a semaphore that no task holds (what the
\* kernel does with the holder and the pended tasks of a deleted semaphore
\* is the platform's business, semDelete above).
ReentrantSemaphoreDtor(l) ==
    /\ alive[l]
    /\ Valid(m_semaphore[l]) => semOwner[m_semaphore[l]] = NoTask
    /\ semDelete(m_semaphore[l])
    /\ alive' = [alive EXCEPT ![l] = FALSE]
    /\ UNCHANGED <<m_semaphore, call, ret, taken, guards>>

\* take() that calls semTake and returns 0 whatever semTake returned.
take_StatusLost(t, l) ==
    LET h == m_semaphore[l]
        r == semTakeResult(t, h, TakeTimeout)
    IN  /\ pc[t] = "run"
        /\ alive[l]
        /\ taken[t][l] < MaxTake
        /\ semTake(t, h, TakeTimeout)
        /\ call' = IF r = "PEND"
                   THEN [call EXCEPT ![t] = [op |-> "take", lock |-> l, g |-> 0]]
                   ELSE call
        /\ ret' = IF r = "PEND" THEN ret ELSE OK
        /\ taken' = IF r # "PEND" THEN [taken EXCEPT ![t][l] = @ + 1] ELSE taken
        /\ UNCHANGED <<m_semaphore, alive, guards>>

\* int take(): return semTake(m_semaphore, WAIT_FOREVER).  The call either
\* returns at once or leaves the task pended inside it.
take(t, l) ==
    LET h == m_semaphore[l]
        r == semTakeResult(t, h, TakeTimeout)
    IN  /\ pc[t] = "run"
        /\ alive[l]
        /\ taken[t][l] < MaxTake
        /\ semTake(t, h, TakeTimeout)
        /\ call' = IF r = "PEND"
                   THEN [call EXCEPT ![t] = [op |-> "take", lock |-> l, g |-> 0]]
                   ELSE call
        /\ ret' = IF r = "PEND" THEN ret
                  ELSE IF r = "OK" THEN OK ELSE ERROR
        /\ taken' = IF r = "OK" THEN [taken EXCEPT ![t][l] = @ + 1] ELSE taken
        /\ UNCHANGED <<m_semaphore, alive, guards>>

\* The pended semTake of take() returns: 0 when a give handed the semaphore
\* to the task, -1 when the semaphore was deleted under it.
takeReturn(t) ==
    /\ pc[t] \in {"ready", "readyErr"}
    /\ call[t].op = "take"
    /\ pc' = [pc EXCEPT ![t] = "run"]
    /\ call' = [call EXCEPT ![t] = NoCall]
    /\ ret' = IF pc[t] = "ready" THEN OK ELSE ERROR
    /\ taken' = IF pc[t] = "ready"
                THEN [taken EXCEPT ![t][call[t].lock] = @ + 1] ELSE taken
    /\ errno' = IF pc[t] = "ready" THEN errno ELSE S_objLib_OBJ_DELETED
    /\ UNCHANGED <<m_semaphore, alive, semValid, semOptions, semOwner, recurse,
                   qHead, guards>>

\* give() that returns 0 without calling semGive.
give_NoRelease(t, l) ==
    /\ pc[t] = "run"
    /\ alive[l]
    /\ taken[t][l] > 0
    /\ ret' = OK
    /\ taken' = [taken EXCEPT ![t][l] = @ - 1]
    /\ UNCHANGED <<m_semaphore, alive, semValid, semOptions, semOwner, recurse,
                   qHead, errno, pc, call, guards>>

\* int give(): return semGive(m_semaphore).  Callers pair a give() with an
\* earlier take() of theirs ("it will need to give the semaphore the same
\* number of times"); a give() by a task that holds nothing is an error the
\* kernel reports.
give(t, l) ==
    LET h == m_semaphore[l]
        r == semGiveResult(t, h)
    IN  /\ pc[t] = "run"
        /\ alive[l]
        /\ taken[t][l] > 0 \/ r = ERROR
        /\ semGive(t, h)
        /\ ret' = r
        /\ taken' = IF r = OK THEN [taken EXCEPT ![t][l] = @ - 1] ELSE taken
        /\ UNCHANGED <<m_semaphore, alive, call, guards>>

(***************************************************************************)
(* Synchronized.                                                           *)
(***************************************************************************)
\* The Synchronized objects of task t that are constructed and not destroyed.
Live(t) == {g \in DOMAIN guards : guards[g].task = t /\ guards[g].state = "Locked"}

\* Stack objects are destroyed in the reverse order of their construction:
\* the next scope to end is that of the youngest live object.
TopGuard(t) == CHOOSE g \in Live(t) : \A g2 \in Live(t) : g2 <= g

\* A declaration that constructs again an object already destroyed.
Fresh_Reuse ==
    {g \in DOMAIN guards :
        /\ guards[g].takes = 0 \/ guards[g].state = "Released"
        /\ \A g2 \in DOMAIN guards :
              g2 < g => ~(guards[g2].takes = 0 \/ guards[g2].state = "Released")}

\* The object the next declaration constructs: objects are numbered in the
\* order of their construction.
Fresh == {g \in DOMAIN guards :
            guards[g].takes = 0 /\ \A g2 \in DOMAIN guards : g2 < g => guards[g2].takes # 0}

\* A constructor that looks at the status of semTake and does not complete
\* when it is ERROR.
Synchronized_Checked(t, l, how) ==
    LET h == m_semaphore[l]
        r == semTakeResult(t, h, WAIT_FOREVER)
    IN  /\ pc[t] = "run"
        /\ how \in {"SEM_ID", "ReentrantSemaphore"}
        /\ alive[l]
        /\ \E g \in Fresh :
            /\ semTake(t, h, WAIT_FOREVER)
            /\ guards' = [guards EXCEPT ![g] =
                    [@ EXCEPT !.task = t, !.m_semaphore = h, !.lock = l,
                              !.takes = @ + 1,
                              !.state = IF r = "OK" THEN "Locked" ELSE "Unlocked",
                              !.took = IF r = "ERROR" THEN ERROR ELSE OK]]
            /\ call' = IF r = "PEND"
                       THEN [call EXCEPT ![t] = [op |-> "ctor", lock |-> l, g |-> g]]
                       ELSE call
        /\ UNCHANGED <<m_semaphore, alive, ret, taken>>

\* The two constructors, Synchronized(SEM_ID) and
\* Synchronized(ReentrantSemaphore&): m_semaphore is set to the handle, or to
\* the handle the ReentrantSemaphore wraps, and semTake(m_semaphore,
\* WAIT_FOREVER) is called; its status is not looked at.  Either is called
\* for a semaphore object that exists (has not been destroyed); the handle
\* it wraps is NULL when its creation failed.
Synchronized(t, l, how) ==
    LET h == m_semaphore[l]
        r == semTakeResult(t, h, WAIT_FOREVER)
    IN  /\ pc[t] = "run"
        /\ how \in {"SEM_ID", "ReentrantSemaphore"}
        /\ alive[l]
        /\ \E g \in Fresh :
            /\ semTake(t, h, WAIT_FOREVER)
            /\ guards' = [guards EXCEPT ![g] =
                    [@ EXCEPT !.task = t, !.m_semaphore = h, !.lock = l,
                              !.takes = @ + 1,
                              !.state = IF r = "PEND" THEN "Unlocked" ELSE "Locked",
                              !.took = IF r = "ERROR" THEN ERROR ELSE OK]]
            /\ call' = IF r = "PEND"
                       THEN [call EXCEPT ![t] = [op |-> "ctor", lock |-> l, g |-> g]]
                       ELSE call
        /\ UNCHANGED <<m_semaphore, alive, ret, taken>>

\* The pended semTake of a constructor returns and the constructor completes,
\* whichever status semTake returns.
SynchronizedReturn(t) ==
    /\ pc[t] \in {"ready", "readyErr"}
    /\ call[t].op = "ctor"
    /\ pc' = [pc EXCEPT ![t] = "run"]
    /\ call' = [call EXCEPT ![t] = NoCall]
    /\ guards' = [guards EXCEPT ![call[t].g] =
            [@ EXCEPT !.state = "Locked",
                      !.took = IF pc[t] = "ready" THEN OK ELSE ERROR]]
    /\ errno' = IF pc[t] = "ready" THEN errno ELSE S_objLib_OBJ_DELETED
    /\ UNCHANGED <<m_semaphore, alive, semValid, semOptions, semOwner, recurse,
                   qHead, ret, taken>>

\* A destructor that disposes of the semaphore as its owner would:
\* semDelete(m_semaphore) in place of semGive(m_semaphore).
SynchronizedDtor_Owning(t, g) ==
    /\ semDelete(guards[g].m_semaphore)
    /\ guards' = [guards EXCEPT ![g] =
            [@ EXCEPT !.state = "Released", !.gives = @ + 1,
                      !.gave = guards[g].m_semaphore]]

\* ~Synchronized: semGive(m_semaphore); its status is not looked at.
SynchronizedDtor(t, g) ==
    /\ semGive(t, guards[g].m_semaphore)
    /\ guards' = [guards EXCEPT ![g] =
            [@ EXCEPT !.state = "Released", !.gives = @ + 1,
                      !.gave = guards[g].m_semaphore]]

\* The ways control leaves the block a Synchronized is declared in.
ExitPaths == {"normal", "return", "throw"}

\* A scope exit that destroys the object only when the block falls through
\* its closing brace: on a return or a throw the object is dropped without
\* its destructor being run.
ScopeExit_NormalOnly(t, path) ==
    /\ pc[t] = "run"
    /\ path \in ExitPaths
    /\ Live(t) # {}
    /\ IF path = "normal"
       THEN SynchronizedDtor(t, TopGuard(t))
       ELSE /\ guards' = [guards EXCEPT ![TopGuard(t)].state = "Released"]
            /\ UNCHANGED <<semValid, semOptions, semOwner, recurse, qHead, errno, pc>>
    /\ UNCHANGED <<m_semaphore, alive, call, ret, taken>>

\* The block of the youngest Synchronized of task t ends, by falling through
\* its closing brace, by a return statement or by a throw that propagates
\* out of it: the object is destroyed.
ScopeExit(t, path) ==
    /\ pc[t] = "run"
    /\ path \in ExitPaths
    /\ Live(t) # {}
    /\ SynchronizedDtor(t, TopGuard(t))
    /\ UNCHANGED <<m_semaphore, alive, call, ret, taken>>

\* The macro written "{ Synchronized(s);": the object is an unnamed
\* temporary, destroyed at the end of the statement that constructs it.  A
\* take that does not pend is followed by its give at once; the kernel's
\* state is as before, but for errno when the handle is invalid.
CRITICAL_REGION_Temporary(t, l) ==
    LET h == m_semaphore[l]
        r == semTakeResult(t, h, WAIT_FOREVER)
    IN  IF r = "PEND" THEN Synchronized(t, l, "ReentrantSemaphore")
        ELSE /\ pc[t] = "run"
             /\ alive[l]
             /\ \E g \in Fresh :
                    guards' = [guards EXCEPT ![g] =
                        [@ EXCEPT !.task = t, !.m_semaphore = h, !.lock = l,
                                  !.takes = @ + 1, !.state = "Released",
                                  !.took = IF r = "ERROR" THEN ERROR ELSE OK,
                                  !.gives = @ + 1, !.gave = h]]
             /\ errno' = IF r = "ERROR" THEN S_objLib_OBJ_ID_ERROR ELSE errno
             /\ UNCHANGED <<m_semaphore, alive, semValid, semOptions, semOwner,
                            recurse, qHead, pc, call, ret, taken>>

\* CRITICAL_REGION(s): "{ Synchronized _sync(s);", here with s a
\* ReentrantSemaphore.
CRITICAL_REGION(t, l) == Synchronized(t, l, "ReentrantSemaphore")

\* END_REGION: "}".
END_REGION(t) == ScopeExit(t, "normal")

(***************************************************************************)
(* The program: every task may call every operation at any time.           *)
(***************************************************************************)
Next ==
    \/ \E l \in Locks : ReentrantSemaphoreDtor(l)
    \/ \E t \in Tasks, l \in Locks : take(t, l)
    \/ \E t \in Tasks : takeReturn(t)
    \/ \E t \in Tasks, l \in Locks : give(t, l)
    \/ \E t \in Tasks, l \in Locks : Synchronized(t, l, "SEM_ID")
    \/ \E t \in Tasks : SynchronizedReturn(t)
    \/ \E t \in Tasks, l \in Locks : CRITICAL_REGION(t, l)
    \/ \E t \in Tasks : END_REGION(t)
    \/ \E t \in Tasks, path \in ExitPaths \ {"normal"} : ScopeExit(t, path)

Spec == Init /\ [][Next]_vars

\* The scheduler runs every ready task in the end: a task whose pended
\* semTake has been satisfied returns from it.
FairSpec ==
    /\ Spec
    /\ \A t \in Tasks : WF_vars(takeReturn(t)) /\ WF_vars(SynchronizedReturn(t))

(***************************************************************************)
(* A program with two ReentrantSemaphores whose tasks nest one critical    *)
(* region inside another: the tasks of odd number enter L1 and then L2,    *)
(* the tasks of even number L2 and then L1.                                *)
(***************************************************************************)
\* The Synchronized objects constructed in a run of this program: those of
\* one pair of nested regions more than in the program with one lock.
TwoLockGuardIds == 1 .. MaxGuards + 2

TwoLockInit == Construct(Locks, TwoLockGuardIds)

Outer(t) == IF t % 2 = 1 THEN "L1" ELSE "L2"
Inner(t) == IF t % 2 = 1 THEN "L2" ELSE "L1"

\* CRITICAL_REGION(outer) by a task that is in no region.
EnterOuter(t) ==
    /\ Live(t) = {}
    /\ CRITICAL_REGION(t, Outer(t))

\* CRITICAL_REGION(inner) by a task that is in its outer region only.
EnterInner(t) ==
    /\ Cardinality(Live(t)) = 1
    /\ CRITICAL_REGION(t, Inner(t))

TwoLockNext ==
    \/ \E t \in Tasks : EnterOuter(t)
    \/ \E t \in Tasks : EnterInner(t)
    \/ \E t \in Tasks : SynchronizedReturn(t)
    \/ \E t \in Tasks : END_REGION(t)

TwoLockSpec == TwoLockInit /\ [][TwoLockNext]_vars

(***************************************************************************)
(* A program that uses its ReentrantSemaphore through Synchronized only:   *)
(* no task calls take() or give().                                         *)
(***************************************************************************)
GuardNext ==
    \/ \E l \in Locks : ReentrantSemaphoreDtor(l)
    \/ \E t \in Tasks, l \in Locks : Synchronized(t, l, "SEM_ID")
    \/ \E t \in Tasks : SynchronizedReturn(t)
    \/ \E t \in Tasks, l \in Locks : CRITICAL_REGION(t, l)
    \/ \E t \in Tasks : END_REGION(t)
    \/ \E t \in Tasks, path \in ExitPaths \ {"normal"} : ScopeExit(t, path)

GuardSpec == Init /\ [][GuardNext]_vars

(***************************************************************************)
(* A program that uses its ReentrantSemaphore through Synchronized, and    *)
(* whose tasks also call give() with no take() of their own to match it.   *)
(***************************************************************************)
\* int give() called by a task that has given back every take() of its own
\* and still owns the semaphore through a Synchronized: semGive succeeds and
\* releases the level that object took.
giveUnpaired(t, l) ==
    LET h == m_semaphore[l] IN
    /\ pc[t] = "run"
    /\ alive[l]
    /\ taken[t][l] = 0
    /\ semGiveResult(t, h) = OK
    /\ semGive(t, h)
    /\ ret' = OK
    /\ UNCHANGED <<m_semaphore, alive, call, taken, guards>>

UnpairedNext ==
    \/ GuardNext
    \/ \E t \in Tasks, l \in Locks : giveUnpaired(t, l)

UnpairedSpec == Init /\ [][UnpairedNext]_vars

(***************************************************************************)
(* What the properties below speak of.                                     *)
(***************************************************************************)
\* Task t is pended in semTake on the semaphore of lock l.
Pended(t, l) == \E i \in DOMAIN qHead[l] : qHead[l][i] = t

\* The Synchronized objects of task t over lock l that are constructed, not
\* destroyed, and whose semTake returned OK.
HoldingGuards(t, l) ==
    {g \in DOMAIN guards : /\ guards[g].task = t /\ guards[g].lock = l
                      /\ guards[g].state = "Locked" /\ guards[g].took = OK}

\* The acquires of lock l that task t has completed and not yet released, as
\* the task itself counts them: its take()s and its guards.
Held(t, l) == taken[t][l] + Cardinality(HoldingGuards(t, l))

\* Task t is past an acquire of lock l: a take() of its has returned 0 and is
\* not given back, or a Synchronized of its over l has completed construction
\* and is not destroyed.
InRegion(t, l) ==
    \/ taken[t][l] > 0
    \/ \E g \in DOMAIN guards : /\ guards[g].task = t /\ guards[g].lock = l
                                /\ guards[g].state = "Locked"

(***************************************************************************)
(* C1.  Mutual exclusion: in every reachable state, for every lock, at     *)
(* most one task is past its blocking acquire on that lock, that is,       *)
(* inside the critical region.  This is the claim as stated; it fails when *)
(* semMCreate returned NULL: every semTake then returns ERROR, every       *)
(* constructor completes all the same, and two tasks are inside the        *)
(* region together.                                                        *)
(***************************************************************************)
C1_MutualExclusion ==
    \A l \in Locks : \A t, u \in Tasks :
        InRegion(t, l) /\ InRegion(u, l) => t = u

(***************************************************************************)
(* C2.  Reentrant hold count: while a task has completed N >= 1 acquires   *)
(* of a lock that it has not released, the lock is owned by that task with *)
(* count N and no other task has acquired it or been granted it; once the  *)
(* task has released all N, it no longer owns the lock.                    *)
(***************************************************************************)
C2_ReentrantHoldCount ==
    \A l \in Locks : \A t \in Tasks :
        /\ (semValid[l] /\ Held(t, l) > 0) =>
              /\ semOwner[l] = t
              /\ recurse[l] = Held(t, l)
              /\ \A u \in Tasks \ {t} : Held(u, l) = 0 /\ pc[u] # "ready"
        /\ (Held(t, l) = 0 /\ pc[t] # "ready") => semOwner[l] # t

\* A task holds the lock twice by take() and has given it once or not at all,
\* while another task is pended on it.
C2_Witness ==
    \E l \in Locks : \E t, u \in Tasks :
        /\ t # u /\ taken[t][l] >= 2 /\ recurse[l] = taken[t][l]
        /\ Pended(u, l)

(***************************************************************************)
(* C3.  Every Synchronized that completed construction causes exactly one  *)
(* semGive, on the handle it recorded, when its scope ends, whichever way  *)
(* the scope ends (falling through, return, throw): a destroyed object has *)
(* given once, an object not yet destroyed has not given, and every scope  *)
(* exit destroys the youngest live object with one give on its handle.     *)
(***************************************************************************)
C3_ExactlyOneRelease ==
    /\ [](\A g \in GuardIds :
            /\ guards[g].state = "Released" =>
                  guards[g].gives = 1 /\ guards[g].gave = guards[g].m_semaphore
            /\ guards[g].state # "Released" => guards[g].gives = 0)
    /\ [][\A t \in Tasks, path \in ExitPaths :
            ScopeExit(t, path) =>
                LET g == TopGuard(t) IN
                /\ guards'[g].state = "Released"
                /\ guards'[g].gives = guards[g].gives + 1
                /\ guards'[g].gave = guards[g].m_semaphore
                /\ \A g2 \in GuardIds \ {g} : guards'[g2] = guards[g2]]_vars

\* A Synchronized has been destroyed while another of the same task is still
\* live: the destroyed one has given once, the live one not yet.
C3_Witness ==
    \E g, g2 \in GuardIds :
        /\ guards[g].task = guards[g2].task
        /\ guards[g].state = "Released" /\ guards[g].gives = 1
        /\ guards[g2].state = "Locked" /\ guards[g2].gives = 0

(***************************************************************************)
(* C4.  Nested guards are reentrant: a task that holds a lock never pends  *)
(* on it, so a second Synchronized over the lock is constructed without    *)
(* blocking; and as long as one of the task's Synchronized objects over    *)
(* the lock is live, the task owns the lock with a count of at least the   *)
(* number of those objects and no other task has acquired it or been       *)
(* granted it.                                                             *)
(***************************************************************************)
C4_NestedGuards ==
    \A l \in Locks : \A t \in Tasks :
        /\ semOwner[l] = t => ~Pended(t, l)
        /\ (semValid[l] /\ HoldingGuards(t, l) # {}) =>
              /\ semOwner[l] = t
              /\ recurse[l] >= Cardinality(HoldingGuards(t, l))
              /\ \A u \in Tasks \ {t} : Held(u, l) = 0 /\ pc[u] # "ready"

\* A task constructed two Synchronized over the lock it held and destroyed
\* one of them: it still owns the lock, and another task is pended on it.
C4_Witness ==
    \E l \in Locks : \E t, u \in Tasks : \E g, g2 \in GuardIds :
        /\ t # u /\ g < g2
        /\ guards[g].task = t /\ guards[g].lock = l /\ guards[g].state = "Locked"
        /\ guards[g2].task = t /\ guards[g2].lock = l /\ guards[g2].state = "Released"
        /\ guards[g].took = OK /\ guards[g2].took = OK
        /\ semOwner[l] = t /\ recurse[l] = 1
        /\ Pended(u, l)

(***************************************************************************)
(* C5.  Eventual unblocking: when the owner of a lock releases it down to  *)
(* hold count zero while task b is pended on it and no other pended task   *)
(* comes before b (none of higher priority, and none of b's priority that  *)
(* has waited longer), the lock passes to b and b is made ready; and a     *)
(* task made ready is eventually scheduled, returns from its acquire and   *)
(* owns the lock.                                                          *)
(***************************************************************************)
FirstWaiter(b, l) ==
    \E j \in DOMAIN qHead[l] :
        /\ qHead[l][j] = b
        /\ \A i \in DOMAIN qHead[l] \ {j} :
              \/ Priority(qHead[l][i]) > Priority(b)
              \/ Priority(qHead[l][i]) = Priority(b) /\ i > j

C6_UnboundedBlocking ==
    [][\A l \in Locks : \A t \in Tasks :
        /\ ((take(t, l) \/ \E how \in {"SEM_ID", "ReentrantSemaphore"} : Synchronized(t, l, how))
             /\ Valid(m_semaphore[l]) /\ semOwner[l] \notin {NoTask, t})
           => (Pended(t, l)' /\ pc'[t] = "pend")
        /\ (Pended(t, l) /\ semOwner'[l] # t /\ recurse'[l] > 0)
           => (Pended(t, l)' /\ pc'[t] = "pend")
        /\ (Pended(t, l) /\ ~Pended(t, l)')
           => /\ semOwner[l] \notin {NoTask, t}
              /\ recurse[l] = 1 /\ Held(semOwner[l], l)' = 0
              /\ semOwner'[l] = t /\ recurse'[l] = 1
              /\ pc'[t] = "ready"]_vars

\* A task is pended in take() on a lock whose holder holds it through a
\* Synchronized and has already destroyed another one over it.
C6_Witness ==
    \E l \in Locks : \E t, u \in Tasks : \E g \in GuardIds :
        /\ t # u /\ Pended(t, l) /\ pc[t] = "pend" /\ call[t].op = "take"
        /\ semOwner[l] = u /\ recurse[l] >= 1
        /\ guards[g].task = u /\ guards[g].state = "Released" /\ guards[g].took = OK

(***************************************************************************)
(* C7.  Priority-ordered grant: whenever a lock on which two or more tasks *)
(* are pended changes owner, the new owner is one of the pended tasks and  *)
(* no pended task has a higher priority, whatever the order of arrival.    *)
(***************************************************************************)
C7_PriorityGrant ==
    [][\A l \in Locks :
        (Len(qHead[l]) >= 2 /\ semOwner'[l] # semOwner[l])
        => /\ \E i \in DOMAIN qHead[l] : qHead[l][i] = semOwner'[l]
           /\ \A j \in DOMAIN qHead[l] :
                 Priority(semOwner'[l]) <= Priority(qHead[l][j])]_vars

\* The task of higher priority has been handed the lock while a task of
\* lower priority is still pended on it.
C7_Witness ==
    \E l \in Locks : \E t, u \in Tasks :
        /\ pc[t] = "ready" /\ semOwner[l] = t
        /\ Pended(u, l) /\ Priority(t) < Priority(u)

(***************************************************************************)
(* C8.  Status of take() and give(): a call returns 0 exactly when the     *)
(* kernel performed the operation (take: the caller owns the semaphore     *)
(* with one more level; give: the caller owned it and holds one level      *)
(* less, or has passed it on); otherwise it returns -1, the kernel's error *)
(* code is in errno, and the owner and the count of the semaphore are as   *)
(* they were.                                                              *)
(***************************************************************************)
C8_StatusOfTakeGive ==
    [][\A l \in Locks : \A t \in Tasks :
        /\ (take(t, l) /\ pc'[t] = "run") =>
              \/ /\ ret' = OK
                 /\ Valid(m_semaphore[l])
                 /\ semOwner'[l] = t /\ recurse'[l] = recurse[l] + 1
              \/ /\ ret' = ERROR
                 /\ errno' \in {S_objLib_OBJ_ID_ERROR, S_objLib_OBJ_DELETED}
                 /\ UNCHANGED <<semOwner, recurse, qHead>>
        /\ (takeReturn(t) /\ call[t].lock = l) =>
              \/ /\ ret' = OK
                 /\ semOwner'[l] = t /\ recurse'[l] = 1
              \/ /\ ret' = ERROR
                 /\ errno' \in {S_objLib_OBJ_ID_ERROR, S_objLib_OBJ_DELETED}
                 /\ UNCHANGED <<semOwner, recurse, qHead>>
        /\ give(t, l) =>
              \/ /\ ret' = OK
                 /\ semOwner[l] = t
                 /\ \/ semOwner'[l] = t /\ recurse'[l] = recurse[l] - 1
                    \/ semOwner'[l] # t /\ recurse[l] = 1
              \/ /\ ret' = ERROR
                 /\ errno' \in {S_objLib_OBJ_ID_ERROR, S_semLib_INVALID_OPERATION}
                 /\ UNCHANGED <<semOwner, recurse, qHead>>]_vars

\* A give() by a task that does not own the semaphore has just failed: -1 is
\* returned, errno tells why, and the owner still holds the semaphore.
C8_Witness ==
    \E l \in Locks :
        /\ ret = ERROR /\ errno = S_semLib_INVALID_OPERATION
        /\ semOwner[l] # NoTask /\ recurse[l] >= 1

(***************************************************************************)
(* C9.  Synchronized discards the status of its semTake and its semGive:   *)
(* no step of a constructor or a destructor changes the value a caller got *)
(* from take()/give(); a constructor whose semTake returned ERROR          *)
(* completes like one whose semTake returned OK (the object is Locked,     *)
(* with the handle it was given, as soon as semTake has returned); and the *)
(* destructor of either gives exactly once.                                *)
(***************************************************************************)
UnderConstruction(g) ==
    \E t \in Tasks : pc[t] # "run" /\ call[t].op = "ctor" /\ call[t].g = g

C9_StatusDiscarded ==
    /\ [](\A g \in GuardIds :
            /\ (guards[g].takes > 0 /\ ~UnderConstruction(g))
                  => guards[g].state \in {"Locked", "Released"}
            /\ guards[g].takes > 0
                  => guards[g].m_semaphore = m_semaphore[guards[g].lock]
            /\ guards[g].state = "Released" => guards[g].gives = 1)
    /\ [][\A t \in Tasks :
            (\/ \E l \in Locks, how \in {"SEM_ID", "ReentrantSemaphore"} :
                    Synchronized(t, l, how)
             \/ SynchronizedReturn(t)
             \/ \E path \in ExitPaths : ScopeExit(t, path))
            => ret' = ret]_vars

\* A Synchronized whose semTake failed was constructed all the same and has
\* been destroyed with its one give, while another whose semTake failed is
\* live.
C9_Witness ==
    \E g, g2 \in GuardIds :
        /\ guards[g].state = "Released" /\ guards[g].took = ERROR
        /\ guards[g].gives = 1
        /\ guards[g2].state = "Locked" /\ guards[g2].took = ERROR

(***************************************************************************)
(* C10.  Each Synchronized follows Unlocked -> Locked -> Released: its     *)
(* state changes only by construction (Unlocked to Locked) and by          *)
(* destruction (Locked to Released), it never changes task or handle once  *)
(* constructed, and it calls semTake at most once in its lifetime.         *)
(***************************************************************************)
C10_GuardStateMachine ==
    /\ [](\A g \in GuardIds : guards[g].takes <= 1 /\ guards[g].gives <= 1)
    /\ [][\A g \in GuardIds :
            /\ guards'[g].state # guards[g].state =>
                  <<guards[g].state, guards'[g].state>>
                      \in {<<"Unlocked", "Locked">>, <<"Locked", "Released">>}
            /\ guards[g].takes > 0 =>
                  /\ guards'[g].takes = guards[g].takes
                  /\ guards'[g].task = guards[g].task
                  /\ guards'[g].m_semaphore = guards[g].m_semaphore]_vars

\* One task has a destroyed Synchronized, which took once and gave once, and
\* a live one constructed after it.
C10_Witness ==
    \E g, g2 \in GuardIds :
        /\ g < g2 /\ guards[g].task = guards[g2].task
        /\ guards[g].state = "Released" /\ guards[g2].state = "Locked"
        /\ guards[g].takes = 1 /\ guards[g].gives = 1
        /\ guards[g2].takes = 1 /\ guards[g2].gives = 0

(***************************************************************************)
(* C11.  Two-lock deadlock: in the program whose tasks enter the two locks *)
(* in opposite orders, the take that closes the circle (a task that owns   *)
(* its outer lock asks for its inner lock, whose owner is pended on the    *)
(* first task's outer lock) is not refused: it pends, and the two tasks    *)
(* are deadlocked; and from a deadlocked state on, both tasks stay pended, *)
(* both locks keep their owner and their count, and no Synchronized of     *)
(* either task changes: neither lock is ever released.                     *)
(***************************************************************************)
Deadlock(a, b) ==
    /\ a # b /\ pc[a] = "pend" /\ pc[b] = "pend"
    /\ \E l, m \in Locks :
          /\ l # m
          /\ semOwner[l] = a /\ Pended(b, l)
          /\ semOwner[m] = b /\ Pended(a, m)

C11_TwoLockDeadlock ==
    /\ [][\A t, u \in Tasks :
            (/\ EnterInner(t) /\ u # t
             /\ semOwner[Outer(t)] = t /\ semOwner[Inner(t)] = u
             /\ pc[u] = "pend" /\ Pended(u, Outer(t)))
            => Deadlock(t, u)']_vars
    /\ [][\A a, b \in Tasks :
            Deadlock(a, b) =>
                /\ Deadlock(a, b)'
                /\ \A l \in Locks :
                      semOwner[l] \in {a, b} =>
                          semOwner'[l] = semOwner[l] /\ recurse'[l] = recurse[l]
                /\ \A g \in DOMAIN guards :
                      guards[g].task \in {a, b} => guards'[g] = guards[g]]_vars

\* Task 1 holds L1 and is pended on L2 inside the constructor of its second
\* Synchronized; task 2 holds L2 and is pended on L1 likewise.
C11_Witness ==
    \E a, b \in Tasks :
        /\ Deadlock(a, b)
        /\ semOwner["L1"] = a /\ semOwner["L2"] = b
        /\ call[a].op = "ctor" /\ call[a].lock = "L2"
        /\ call[b].op = "ctor" /\ call[b].lock = "L1"
        /\ Cardinality(Live(a)) = 1 /\ Cardinality(Live(b)) = 1

(***************************************************************************)
(* C12.  Synchronized borrows the handle: no step of a constructor or of a *)
(* destructor creates or deletes a native semaphore or changes the handle  *)
(* a ReentrantSemaphore wraps (or whether that object exists); a           *)
(* constructor records the handle of the semaphore it is given and takes   *)
(* that one; and the destructor gives the handle the object recorded.      *)
(***************************************************************************)
C12_GuardBorrowsHandle ==
    /\ [][\A t \in Tasks :
            (\/ \E l \in Locks, how \in {"SEM_ID", "ReentrantSemaphore"} :
                    Synchronized(t, l, how)
             \/ SynchronizedReturn(t)
             \/ \E path \in ExitPaths : ScopeExit(t, path))
            => UNCHANGED <<m_semaphore, alive, semValid, semOptions>>]_vars
    /\ [][\A g \in GuardIds :
            /\ (guards[g].takes = 0 /\ guards'[g].takes = 1) =>
                  /\ guards'[g].m_semaphore = m_semaphore[guards'[g].lock]
                  /\ (Valid(guards'[g].m_semaphore) /\ guards'[g].state = "Locked")
                        => semOwner'[guards'[g].m_semaphore] = guards'[g].task
            /\ (guards[g].state = "Locked" /\ guards'[g].state = "Released") =>
                  /\ guards'[g].gave = guards[g].m_semaphore
                  /\ guards'[g].m_semaphore = guards[g].m_semaphore]_vars

\* A Synchronized has taken and given back a semaphore that still exists and
\* is still the one its ReentrantSemaphore wraps, and that a Synchronized of
\* another task now holds.
C12_Witness ==
    \E g, g2 \in GuardIds : \E l \in Locks :
        /\ guards[g].state = "Released" /\ guards[g].gave = l /\ guards[g].took = OK
        /\ alive[l] /\ m_semaphore[l] = l /\ semValid[l]
        /\ guards[g2].state = "Locked" /\ guards[g2].m_semaphore = l
        /\ guards[g2].task # guards[g].task /\ semOwner[l] = guards[g2].task

(***************************************************************************)
(* C13.  Lock lifecycle: a ReentrantSemaphore that has been constructed    *)
(* and not destroyed wraps a native semaphore that exists (its handle is   *)
(* valid in every state between construction and destruction); and once    *)
(* the object has been destroyed, its semaphore has been deleted and no    *)
(* task owns it or is pended on it.  This is the claim as stated; it fails *)
(* when semMCreate returned NULL: the constructor stores the NULL handle   *)
(* without a test, and the object lives on wrapping no semaphore at all.   *)
(***************************************************************************)
C13_LockLifecycle ==
    \A l \in Locks :
        /\ alive[l] => Valid(m_semaphore[l])
        /\ ~alive[l] =>
              /\ ~semValid[l]
              /\ semOwner[l] = NoTask /\ recurse[l] = 0 /\ qHead[l] = <<>>
              /\ \A t \in Tasks : ~(pc[t] # "run" /\ call[t].lock = l)

(***************************************************************************)
(* C14.  Guard / hold-count correspondence.  A lock is used through        *)
(* Synchronized only, and every acquire succeeds, when its semaphore       *)
(* exists, no task holds it by take() or is inside take() on it, and no    *)
(* Synchronized over it has had its semTake fail.                          *)
(***************************************************************************)
GuardsOnly(l) ==
    /\ Valid(m_semaphore[l])
    /\ \A t \in Tasks : taken[t][l] = 0 /\ ~(call[t].op = "take" /\ call[t].lock = l)
    /\ \A g \in DOMAIN guards : guards[g].lock = l => guards[g].took = OK

\* The live Synchronized objects over lock l.
LockedGuards(l) ==
    {g \in DOMAIN guards : guards[g].lock = l /\ guards[g].state = "Locked"}

\* The Synchronized over lock l whose pended semTake has been given the
\* semaphore while its task has not yet run and returned from the
\* constructor.
GrantedGuards(l) ==
    {g \in DOMAIN guards :
        /\ guards[g].lock = l /\ guards[g].state = "Unlocked"
        /\ \E t \in Tasks : pc[t] = "ready" /\ call[t].op = "ctor" /\ call[t].g = g}

\* The claim as stated: in every state the hold count of such a lock is the
\* number of its live (Locked) Synchronized objects, all of them belong to
\* the owner, and the lock is free exactly when there is none.  It fails in
\* the state between the give that hands the semaphore to a pended task and
\* the return of that task's constructor: the count is one, the object is
\* not yet Locked.
C14_LiveGuardsOnly ==
    \A l \in Locks :
        GuardsOnly(l) =>
            /\ recurse[l] = Cardinality(LockedGuards(l))
            /\ \A g \in LockedGuards(l) : guards[g].task = semOwner[l]
            /\ semOwner[l] = NoTask <=> LockedGuards(l) = {}

\* C14 as amended: in every state the hold count of such a lock is the
\* number of its live (Locked) Synchronized objects plus the one, if any,
\* whose pended constructor has been handed the semaphore and has not yet
\* returned; all of these belong to the owner; and the lock is free exactly
\* when there is none of them.
C14_GuardHoldCount ==
    \A l \in Locks :
        GuardsOnly(l) =>
            /\ recurse[l] = Cardinality(LockedGuards(l) \cup GrantedGuards(l))
            /\ \A g \in LockedGuards(l) \cup GrantedGuards(l) :
                  guards[g].task = semOwner[l]
            /\ semOwner[l] = NoTask <=> LockedGuards(l) \cup GrantedGuards(l) = {}

\* A task holds the lock through two nested Synchronized, constructed one
\* after the other without blocking, and the count is two.
C14_Witness ==
    \E l \in Locks : \E t \in Tasks :
        /\ GuardsOnly(l) /\ semOwner[l] = t
        /\ Cardinality(LockedGuards(l)) = 2 /\ recurse[l] = 2
        /\ \A g \in LockedGuards(l) : guards[g].task = t

(***************************************************************************)
(* C15.  The destruction of a Synchronized never reduces the hold of a     *)
(* task other than the one that constructed it: a scope exit of task t     *)
(* leaves the owner, the count and the pend queue of every semaphore owned *)
(* by another task as they were; and when the semTake of the object had    *)
(* failed, or the task no longer owns the semaphore, its semGive changes   *)
(* no semaphore at all.                                                    *)
(***************************************************************************)
C15_NoForeignRelease ==
    [][\A t \in Tasks, path \in ExitPaths :
        ScopeExit(t, path) =>
            LET g == TopGuard(t) IN
            /\ \A l \in Locks :
                  semOwner[l] \notin {NoTask, t} =>
                      /\ semOwner'[l] = semOwner[l]
                      /\ recurse'[l] = recurse[l]
                      /\ qHead'[l] = qHead[l]
            /\ (guards[g].took = ERROR \/ ~Valid(guards[g].m_semaphore)
                    \/ semOwner[guards[g].m_semaphore] # t)
                  => UNCHANGED <<semOwner, recurse, qHead, pc>>]_vars

\* Task t gave away the level its Synchronized held, task u took the
\* semaphore, and the Synchronized of t has since been destroyed: its semGive
\* was refused, and u still owns the semaphore through its own Synchronized.
C15_Witness ==
    \E l \in Locks : \E t, u \in Tasks : \E g, g2 \in GuardIds :
        /\ t # u /\ g < g2
        /\ guards[g].task = t /\ guards[g].lock = l /\ guards[g].took = OK
        /\ guards[g].state = "Released"
        /\ guards[g2].task = u /\ guards[g2].lock = l /\ guards[g2].state = "Locked"
        /\ semOwner[l] = u /\ recurse[l] = 1
        /\ errno = S_semLib_INVALID_OPERATION

(***************************************************************************)
(* C16.  The three ways into a protected region are equivalent.  A         *)
(* Synchronized constructed from the SEM_ID, one constructed from the      *)
(* ReentrantSemaphore that wraps it, and CRITICAL_REGION are possible in   *)
(* the same states and lead to the same states; each is one semTake with   *)
(* WAIT_FOREVER on the handle the ReentrantSemaphore wraps (the caller     *)
(* becomes owner with one more level, or pends at the tail of the queue,   *)
(* or, the handle being invalid, nothing changes but errno), by one new    *)
(* object that records that handle.  END_REGION and every other scope exit *)
(* are possible in the same states and lead to the same states; each is    *)
(* one semGive on the recorded handle (one level less, or the semaphore    *)
(* passes on or becomes free, or, the caller not owning it, nothing        *)
(* changes).                                                               *)
(***************************************************************************)
EntryEffect(t, l) ==
    LET h == m_semaphore[l] IN
    /\ \E g \in DOMAIN guards :
          /\ guards[g].takes = 0 /\ guards'[g].takes = 1
          /\ guards'[g].task = t /\ guards'[g].m_semaphore = h
          /\ guards'[g].gives = 0
          /\ \A g2 \in DOMAIN guards \ {g} : guards'[g2] = guards[g2]
    /\ IF ~Valid(h) THEN
            /\ errno' = S_objLib_OBJ_ID_ERROR
            /\ UNCHANGED <<semOwner, recurse, qHead, pc>>
       ELSE IF semOwner[h] \in {NoTask, t} THEN
            /\ semOwner' = [semOwner EXCEPT ![h] = t]
            /\ recurse' = [recurse EXCEPT ![h] = recurse[h] + 1]
            /\ UNCHANGED <<qHead, pc, errno>>
       ELSE /\ qHead' = [qHead EXCEPT ![h] = Append(qHead[h], t)]
            /\ pc' = [pc EXCEPT ![t] = "pend"]
            /\ UNCHANGED <<semOwner, recurse, errno>>
    /\ UNCHANGED <<m_semaphore, alive, semValid, semOptions, ret, taken>>

ExitEffect(t) ==
    LET g == TopGuard(t)
        h == guards[g].m_semaphore
    IN
    /\ guards'[g] = [guards[g] EXCEPT !.state = "Released", !.gives = 1, !.gave = h]
    /\ guards[g].gives = 0
    /\ \A g2 \in DOMAIN guards \ {g} : guards'[g2] = guards[g2]
    /\ IF ~Valid(h) \/ semOwner[h] # t THEN
            UNCHANGED <<semOwner, recurse, qHead, pc>>
       ELSE IF recurse[h] > 1 THEN
            /\ recurse' = [recurse EXCEPT ![h] = recurse[h] - 1]
            /\ UNCHANGED <<semOwner, qHead, pc, errno>>
       ELSE IF qHead[h] = <<>> THEN
            /\ semOwner' = [semOwner EXCEPT ![h] = NoTask]
            /\ recurse' = [recurse EXCEPT ![h] = 0]
            /\ UNCHANGED <<qHead, pc, errno>>
       ELSE /\ semOwner'[h] \in {qHead[h][i] : i \in DOMAIN qHead[h]}
            /\ recurse'[h] = 1
            /\ Len(qHead'[h]) = Len(qHead[h]) - 1
            /\ pc'[semOwner'[h]] = "ready"
            /\ errno' = errno
    /\ UNCHANGED <<m_semaphore, alive, semValid, semOptions, ret, taken, call>>

=============================================================================
